---- MODULE Spec2Model ----
(***************************************************************************)
(* The azurerm_maps_account resource: the create/update, read and delete   *)
(* handlers of maps_account_resource.go, run against a remote account      *)
(* service (Get, CreateOrUpdate, ListKeys, Delete) and a local             *)
(* ResourceData record d.                                                   *)
(*                                                                         *)
(* Conventions.  A Go pointer is a sequence of length at most one: <<>> is *)
(* nil and <<v>> points to v.  A resource identifier is a sequence of path *)
(* segments, <<>> being the empty string.  A tag map is a set of           *)
(* <<key, value>> pairs.  A handler runs to completion in one step: the    *)
(* host never overlaps two lifecycle operations on one resource, and the   *)
(* provider's other clients act between invocations; a remote call that    *)
(* fails within an invocation is one of its faults.                        *)
(***************************************************************************)
EXTENDS Integers, Sequences, FiniteSets, TLC

VARIABLES
    remote,     \* the provider's accounts: key -> <<>> (absent) or <<account>>
    gen,        \* number of accounts the provider has created so far
    d,          \* the local ResourceData of the resource
    last,       \* what the latest step was and did (history of one step)
    assigned    \* identifiers a follow-up Get returned after a successful write

vars == <<remote, gen, d, last, assigned>>

----------------------------------------------------------------------------
(* Bounds and input domains *)

\* accounts the provider creates in one behaviour
MaxGen == 2

Names == {"mymaps"}
ResourceGroups == {"rg1"}
Keys == ResourceGroups \X Names

\* maps.NameS0, maps.NameS1, maps.NameG2
SkuNames == {"S0", "S1", "G2"}

\* local tag maps (map[string]interface{}), as sets of <<key, value>>
TagMaps == {{}, {<<"env", "a">>}}

\* the shape of the provider's answers about one account: complete, or with
\* one of the optional fields of maps.Account missing
Shapes == {"full", "noID", "emptyID", "noSku", "noProperties"}

\* how a remote call of an invocation can fail although the provider holds
\* the account: at most one call does (a handler stops at the first error),
\* named by its place in the handler.  "retrieveNotFound" is the follow-up Get
\* answering 404 for the account just written
ReadFaults == {"none", "readGet", "listKeys"}
UpdateFaults == ReadFaults \cup {"createOrUpdate", "retrieve", "retrieveNotFound"}
CreateFaults == UpdateFaults \cup {"probe"}
DeleteFaults == {"none", "delete"}

ComputedFields == {"x_ms_client_id", "primary_access_key", "secondary_access_key"}

----------------------------------------------------------------------------
(* The identifier codec *)

\* the identifier the provider assigns to the account (resGroup, name)
FormatID(resGroup, name) ==
    <<"subscriptions", "sub", "resourceGroups", resGroup,
      "providers", "Microsoft.Maps", "accounts", name>>

\* parse.AccountID: the resource group and the name of a well-formed
\* identifier, ok false for a malformed one
AccountID(input) ==
    IF /\ Len(input) = 8
       /\ input[1] = "subscriptions"
       /\ input[3] = "resourceGroups"
       /\ input[5] = "providers"
       /\ input[6] = "Microsoft.Maps"
       /\ input[7] = "accounts"
    THEN [ok |-> TRUE,  ResourceGroup |-> input[4], Name |-> input[8]]
    ELSE [ok |-> FALSE, ResourceGroup |-> "",       Name |-> ""]

----------------------------------------------------------------------------
(* Tags *)

\* tags.Expand: map[string]interface{} -> map[string]*string
Expand(t) == {<<p[1], <<p[2]>>>> : p \in t}

\* tags.Flatten: map[string]*string -> map[string]interface{}, nil values dropped
Flatten(tagMap) == {<<p[1], p[2][1]>> : p \in {q \in tagMap : q[2] # <<>>}}

----------------------------------------------------------------------------
(* The remote account service *)

\* the access keys the provider derives for the account with unique id uid
PrimaryKeyOf(uid) == <<"primary", uid>>
SecondaryKeyOf(uid) == <<"secondary", uid>>

NoResponse ==
    [ID |-> <<>>, Sku |-> <<>>, Properties |-> <<>>, Tags |-> {}]

\* client.Get.  fault is "none", or how the call fails although the account
\* may be there: "error" (transport or API error) or "notfound" (the provider
\* does not show the account yet).  err is "nil" or "error"; StatusCode is
\* the HTTP status of the response
ClientGet(rem, key, fault) ==
    IF fault = "error"
    THEN [err |-> "error", StatusCode |-> 500, body |-> NoResponse]
    ELSE IF fault = "notfound" \/ rem[key] = <<>>
    THEN [err |-> "error", StatusCode |-> 404, body |-> NoResponse]
    ELSE LET a == rem[key][1] IN
         [err |-> "nil", StatusCode |-> 200,
          body |-> [ID |-> CASE a.shape = "noID"    -> <<>>
                             [] a.shape = "emptyID" -> << <<>> >>
                             [] OTHER               -> <<FormatID(key[1], key[2])>>,
                    Sku |-> IF a.shape = "noSku" THEN <<>> ELSE <<[Name |-> a.sku]>>,
                    Properties |-> IF a.shape = "noProperties" THEN <<>>
                                   ELSE <<[UniqueID |-> a.uid]>>,
                    Tags |-> a.tags]]

\* client.CreateOrUpdate: creates the account (the provider assigns its
\* unique id; shape is how the provider will describe it) or overwrites the
\* sku and tags of the existing one; a failed call changes nothing
ClientCreateOrUpdate(rem, g, key, parameters, shape, fault) ==
    IF fault
    THEN [err |-> "error", StatusCode |-> 500, remote |-> rem, gen |-> g]
    ELSE IF rem[key] = <<>>
    THEN [err |-> "nil", StatusCode |-> 200,
          remote |-> [rem EXCEPT ![key] = <<[shape |-> shape,
                                             sku   |-> parameters.Sku.Name,
                                             tags  |-> parameters.Tags,
                                             uid   |-> g + 1]>>],
          gen |-> g + 1]
    ELSE [err |-> "nil", StatusCode |-> 200,
          remote |-> [rem EXCEPT ![key] = <<[rem[key][1] EXCEPT
                                              !.sku  = parameters.Sku.Name,
                                              !.tags = parameters.Tags]>>],
          gen |-> g]

\* client.ListKeys
ClientListKeys(rem, key, fault) ==
    IF fault
    THEN [err |-> "error", StatusCode |-> 500,
          PrimaryKey |-> <<>>, SecondaryKey |-> <<>>]
    ELSE IF rem[key] = <<>>
    THEN [err |-> "error", StatusCode |-> 404,
          PrimaryKey |-> <<>>, SecondaryKey |-> <<>>]
    ELSE [err |-> "nil", StatusCode |-> 200,
          PrimaryKey   |-> PrimaryKeyOf(rem[key][1].uid),
          SecondaryKey |-> SecondaryKeyOf(rem[key][1].uid)]

\* client.Delete: the provider answers 200 for an account it deleted and 204
\* for an account that was not there, and the client takes both as success;
\* a failed call changes nothing
ClientDelete(rem, key, fault) ==
    IF fault
    THEN [err |-> "error", StatusCode |-> 500, remote |-> rem]
    ELSE [err |-> "nil",
          StatusCode |-> IF rem[key] = <<>> THEN 204 ELSE 200,
          remote |-> [rem EXCEPT ![key] = <<>>]]

\* utils.ResponseWasNotFound
ResponseWasNotFound(resp) == resp.StatusCode = 404

\* one entry of the log of the remote calls of an invocation: the call and
\* its outcome, "ok", "notfound" or "error"
Call(name, resp) ==
    <<name, IF resp.err = "nil" THEN "ok"
            ELSE IF resp.StatusCode = 404 THEN "notfound" ELSE "error">>

----------------------------------------------------------------------------
(* The local ResourceData *)

\* the ResourceData the host hands to Create: the configuration, no
\* identifier, no computed field
NewData(name, resGroup, sku, t) ==
    [id |-> <<>>, name |-> name, resource_group_name |-> resGroup,
     sku_name |-> sku, tags |-> t,
     x_ms_client_id |-> 0, primary_access_key |-> <<>>,
     secondary_access_key |-> <<>>]

\* d.SetId
SetId(d0, id) == [d0 EXCEPT !.id = id]

\* d.Set(field, value), s being the ResourceData and the fields set so far
Set(s, field, value) ==
    [d |-> [s.d EXCEPT ![field] = value], written |-> s.written \cup {field}]

\* what a handler hands back: the ResourceData and the fields it set, the
\* remote state, the error (kind "nil" for success; ref is the identifier an
\* "already exists" error names), the remote calls it issued, whether the
\* read handler ran, and followUp, the ID pointer of the Get that followed a
\* successful write (nil when there was none)
Outcome(s, rem, g, kind, ref, calls, readRan) ==
    [d |-> s.d, written |-> s.written, remote |-> rem, gen |-> g,
     err |-> kind, ref |-> ref, calls |-> calls, readRan |-> readRan,
     followUp |-> <<>>]

----------------------------------------------------------------------------
(* resourceMapsAccountRead *)

\* lines 154-161: the fields set from the Get response
SetFromAccount(s, id, resp) ==
    LET s1 == Set(Set(s, "name", id.Name), "resource_group_name", id.ResourceGroup)
        s2 == IF resp.Sku # <<>> THEN Set(s1, "sku_name", resp.Sku[1].Name) ELSE s1
    IN  IF resp.Properties # <<>>
        THEN Set(s2, "x_ms_client_id", resp.Properties[1].UniqueID) ELSE s2

\* SetFromKeys with the d.Set of secondary_access_key left out
SetFromKeys_PrimaryOnly(s, keysResp, resp) ==
    Set(Set(s, "primary_access_key", keysResp.PrimaryKey),
        "tags", Flatten(resp.Tags))

\* lines 167-170: the fields set from the ListKeys response, then the tags
SetFromKeys(s, keysResp, resp) ==
    Set(Set(Set(s, "primary_access_key", keysResp.PrimaryKey),
            "secondary_access_key", keysResp.SecondaryKey),
        "tags", Flatten(resp.Tags))

\* ReadGetFailure with the d.SetId("") left out
ReadGetFailure_KeepId(s, rem, g, resp, calls) ==
    IF ResponseWasNotFound(resp)
    THEN Outcome(s, rem, g, "nil", <<>>, calls, TRUE)
    ELSE Outcome(s, rem, g, "ReadRequest", <<>>, calls, TRUE)

\* lines 145-152: what a failed Get means to the read handler
ReadGetFailure(s, rem, g, resp, calls) ==
    IF ResponseWasNotFound(resp)
    THEN Outcome([s EXCEPT !.d = SetId(s.d, <<>>)], rem, g, "nil", <<>>, calls, TRUE)
    ELSE Outcome(s, rem, g, "ReadRequest", <<>>, calls, TRUE)

\* ReadKeys with the error of ListKeys ignored
ReadKeys_IgnoreError(s, rem, g, key, resp, calls, fault) ==
    LET keysResp == ClientListKeys(rem, key, fault = "listKeys")
        calls2   == Append(calls, Call("ListKeys", keysResp))
    IN  Outcome(SetFromKeys(s, keysResp, resp), rem, g, "nil", <<>>, calls2, TRUE)

\* lines 163-170: the ListKeys call and what follows it
ReadKeys(s, rem, g, key, resp, calls, fault) ==
    LET keysResp == ClientListKeys(rem, key, fault = "listKeys")
        calls2   == Append(calls, Call("ListKeys", keysResp))
    IN  IF keysResp.err # "nil"
        THEN Outcome(s, rem, g, "ReadKeys", <<>>, calls2, TRUE)
        ELSE Outcome(SetFromKeys(s, keysResp, resp), rem, g, "nil", <<>>, calls2, TRUE)

\* resourceMapsAccountRead(d, meta); calls0 is the log of the caller so far
resourceMapsAccountRead(d0, rem, g, calls0, fault) ==
    LET id == AccountID(d0.id)
        s  == [d |-> d0, written |-> {}]
    IN
    IF ~id.ok
    THEN Outcome(s, rem, g, "ParseID", <<>>, calls0, TRUE)
    ELSE LET key   == <<id.ResourceGroup, id.Name>>
             resp  == ClientGet(rem, key,
                                IF fault = "readGet" THEN "error" ELSE "none")
             calls == Append(calls0, Call("Get", resp))
         IN  IF resp.err # "nil"
             THEN ReadGetFailure(s, rem, g, resp, calls)
             ELSE ReadKeys(SetFromAccount(s, id, resp.body), rem, g, key,
                           resp.body, calls, fault)

----------------------------------------------------------------------------
(* resourceMapsAccountCreateUpdate *)

\* CheckExisting without the check of lines 103-105
CheckExisting_NoConflict(existing) ==
    IF existing.err # "nil" /\ ~ResponseWasNotFound(existing)
    THEN "CheckPresence"
    ELSE "nil"

\* CheckExisting with every error of the probe taken as not found
CheckExisting_AnyErrorIsAbsent(existing) ==
    IF existing.body.ID # <<>> /\ existing.body.ID[1] # <<>>
    THEN "AlreadyExists"
    ELSE "nil"

\* lines 96-105: the existence probe of a new resource: the error kind, "nil"
\* to go on
CheckExisting(existing) ==
    IF existing.err # "nil" /\ ~ResponseWasNotFound(existing)
    THEN "CheckPresence"
    ELSE IF existing.body.ID # <<>> /\ existing.body.ID[1] # <<>>
    THEN "AlreadyExists"
    ELSE "nil"

\* Parameters with the sku of the configuration dropped for a default
Parameters_DefaultSku(sku, t) ==
    [Location |-> "global", Sku |-> [Name |-> "S0"], Tags |-> Expand(t)]

\* lines 108-114
Parameters(sku, t) ==
    [Location |-> "global", Sku |-> [Name |-> sku], Tags |-> Expand(t)]

\* RetrieveAndRead building the identifier itself when the response has none
RetrieveAndRead_BuildID(d0, rem, g, key, calls, fault) ==
    LET read   == ClientGet(rem, key,
                            CASE fault = "retrieve"         -> "error"
                              [] fault = "retrieveNotFound" -> "notfound"
                              [] OTHER                      -> "none")
        calls2 == Append(calls, Call("Get", read))
        s      == [d |-> d0, written |-> {}]
    IN  IF read.err # "nil"
        THEN Outcome(s, rem, g, "Retrieve", <<>>, calls2, FALSE)
        ELSE IF read.body.ID = <<>>
        THEN resourceMapsAccountRead(SetId(d0, FormatID(key[1], key[2])), rem, g,
                                     calls2, fault)
        ELSE [resourceMapsAccountRead(SetId(d0, read.body.ID[1]), rem, g,
                                      calls2, fault)
                EXCEPT !.followUp = read.body.ID]

\* lines 120-131: the follow-up Get, the identifier, the read
RetrieveAndRead(d0, rem, g, key, calls, fault) ==
    LET read   == ClientGet(rem, key,
                            CASE fault = "retrieve"         -> "error"
                              [] fault = "retrieveNotFound" -> "notfound"
                              [] OTHER                      -> "none")
        calls2 == Append(calls, Call("Get", read))
        s      == [d |-> d0, written |-> {}]
    IN  IF read.err # "nil"
        THEN Outcome(s, rem, g, "Retrieve", <<>>, calls2, FALSE)
        ELSE IF read.body.ID = <<>>
        THEN Outcome(s, rem, g, "NoID", <<>>, calls2, FALSE)
        ELSE [resourceMapsAccountRead(SetId(d0, read.body.ID[1]), rem, g,
                                      calls2, fault)
                EXCEPT !.followUp = read.body.ID]

\* WriteAndRead setting the identifier before the write
WriteAndRead_EarlyId(d0, rem, g, key, calls, shape, fault) ==
    LET d1 == SetId(d0, FormatID(key[1], key[2]))
        cu == ClientCreateOrUpdate(rem, g, key,
                                   Parameters(d0.sku_name, d0.tags), shape,
                                   fault = "createOrUpdate")
        calls2 == Append(calls, Call("CreateOrUpdate", cu))
    IN  IF cu.err # "nil"
        THEN Outcome([d |-> d1, written |-> {}], rem, g, "CreateUpdate", <<>>,
                     calls2, FALSE)
        ELSE RetrieveAndRead(d1, cu.remote, cu.gen, key, calls2, fault)

\* lines 108-131: the write and what follows it
WriteAndRead(d0, rem, g, key, calls, shape, fault) ==
    LET cu == ClientCreateOrUpdate(rem, g, key,
                                   Parameters(d0.sku_name, d0.tags), shape,
                                   fault = "createOrUpdate")
        calls2 == Append(calls, Call("CreateOrUpdate", cu))
    IN  IF cu.err # "nil"
        THEN Outcome([d |-> d0, written |-> {}], rem, g, "CreateUpdate", <<>>,
                     calls2, FALSE)
        ELSE RetrieveAndRead(d0, cu.remote, cu.gen, key, calls2, fault)

\* lines 95-106, then the rest: the probe of a new resource
ProbeAndWrite(d0, rem, g, key, shape, fault) ==
    LET existing == ClientGet(rem, key,
                              IF fault = "probe" THEN "error" ELSE "none")
        calls    == <<Call("Get", existing)>>
        kind     == CheckExisting(existing)
        s        == [d |-> d0, written |-> {}]
    IN  IF kind = "CheckPresence"
        THEN Outcome(s, rem, g, kind, <<>>, calls, FALSE)
        ELSE IF kind = "AlreadyExists"
        THEN Outcome(s, rem, g, kind, existing.body.ID[1], calls, FALSE)
        ELSE WriteAndRead(d0, rem, g, key, calls, shape, fault)

\* resourceMapsAccountCreateUpdate probing whether the resource is new or not
resourceMapsAccountCreateUpdate_AlwaysProbe(d0, rem, g, isNew, shape, fault) ==
    ProbeAndWrite(d0, rem, g, <<d0.resource_group_name, d0.name>>, shape, fault)

\* resourceMapsAccountCreateUpdate(d, meta); isNew is d.IsNewResource()
resourceMapsAccountCreateUpdate(d0, rem, g, isNew, shape, fault) ==
    LET key == <<d0.resource_group_name, d0.name>> IN
    IF isNew
    THEN ProbeAndWrite(d0, rem, g, key, shape, fault)
    ELSE WriteAndRead(d0, rem, g, key, <<>>, shape, fault)

----------------------------------------------------------------------------
(* resourceMapsAccountDelete *)

\* DeleteFailed taking "no content", the answer for an absent account, as a
\* failure
DeleteFailed_NoContent(del) == del.err # "nil" \/ del.StatusCode = 204

\* line 183: whether the Delete call failed
DeleteFailed(del) == del.err # "nil"

resourceMapsAccountDelete(d0, rem, g, fault) ==
    LET id == AccountID(d0.id)
        s  == [d |-> d0, written |-> {}]
    IN
    IF ~id.ok
    THEN Outcome(s, rem, g, "ParseID", <<>>, <<>>, FALSE)
    ELSE LET del == ClientDelete(rem, <<id.ResourceGroup, id.Name>>,
                                 fault = "delete")
             calls == <<Call("Delete", del)>>
         IN  IF DeleteFailed(del)
             THEN Outcome(s, del.remote, g, "Delete", <<>>, calls, FALSE)
             ELSE Outcome(s, del.remote, g, "nil", <<>>, calls, FALSE)

----------------------------------------------------------------------------
(* The state machine *)

\* the key a handler works on: the configured one for create and update, the
\* one the identifier names for read and delete
KeyOf(op, d0) ==
    IF op \in {"create", "update"}
    THEN [ok |-> TRUE, ResourceGroup |-> d0.resource_group_name, Name |-> d0.name]
    ELSE AccountID(d0.id)

\* how the provider describes the account of the handler's key when the
\* handler starts: its shape, or "absent"
EntryShape(op, d0) ==
    LET k == KeyOf(op, d0) IN
    IF k.ok /\ remote[<<k.ResourceGroup, k.Name>>] # <<>>
    THEN remote[<<k.ResourceGroup, k.Name>>][1].shape
    ELSE "absent"

NoInput == [name |-> "", resource_group_name |-> "", sku_name |-> "", tags |-> {}]

ConfigOf(d0) ==
    [name |-> d0.name, resource_group_name |-> d0.resource_group_name,
     sku_name |-> d0.sku_name, tags |-> d0.tags]

\* what the step before an invocation was, as far as an invocation depends
\* on it: a successful create, update or delete; "stranded", a create that
\* wrote the account and failed before it had the identifier; or "none"
After ==
    IF last.err = "nil" /\ last.op \in {"create", "update", "delete"} THEN last.op
    ELSE IF last.op = "create" /\ last.err \in {"Retrieve", "NoID"} THEN "stranded"
    ELSE "none"

\* the record of a handler's invocation: the operation; the configuration it
\* was given (for a read right after a successful create, that create's);
\* the account it found; what it returned and did; whether it left the
\* identifier, the local record and the remote state as they were before
\* it; the step right before it, and whether that was given
\* the same configuration, or one for the same account
Step(op, d0, res) ==
    [op |-> op,
     input |-> IF op \in {"create", "update"} THEN ConfigOf(d0)
               ELSE IF op = "read" /\ After = "create" THEN last.input
               ELSE NoInput,
     entryShape |-> EntryShape(op, d0),
     err |-> res.err, ref |-> res.ref, calls |-> res.calls,
     written |-> res.written, readRan |-> res.readRan,
     idKept |-> res.d.id = d0.id,
     recordKept |-> res.d = d,
     remoteKept |-> res.remote = remote,
     after |-> After,
     same |-> op \in {"create", "update"} /\ last.input = ConfigOf(d0),
     sameKey |-> op \in {"create", "update"} /\ last.input.name = d0.name
                 /\ last.input.resource_group_name = d0.resource_group_name]

\* a step of the host or of the provider's other clients, which runs no handler
Other(op) ==
    [op |-> op, input |-> NoInput, entryShape |-> "absent",
     err |-> "none", ref |-> <<>>, calls |-> <<>>, written |-> {},
     readRan |-> FALSE, idKept |-> TRUE, recordKept |-> TRUE, remoteKept |-> TRUE,
     after |-> "none", same |-> FALSE, sameKey |-> FALSE]

\* the shapes the provider may give an account the handler creates: a choice
\* only when the call creates one
NewShapes(key) == IF remote[key] = <<>> THEN Shapes ELSE {"full"}

Init ==
    /\ remote = [k \in Keys |-> <<>>]
    /\ gen = 0
    /\ d = NewData("", "", "", {})
    /\ last = Other("init")
    /\ assigned = {}

\* the host takes over what the handler hands back
Finish(op, d0, res) ==
    /\ res.gen <= MaxGen
    /\ d' = res.d
    /\ remote' = res.remote
    /\ gen' = res.gen
    /\ last' = Step(op, d0, res)
    /\ assigned' = IF res.followUp = <<>> THEN assigned
                   ELSE assigned \cup {res.followUp[1]}

\* the host creates the resource: Create, with d.IsNewResource() true
Create ==
    \E name \in Names, resGroup \in ResourceGroups, sku \in SkuNames,
       t \in TagMaps, fault \in CreateFaults :
      \E shape \in NewShapes(<<resGroup, name>>) :
        /\ d.id = <<>>
        /\ LET d0  == NewData(name, resGroup, sku, t)
               res == resourceMapsAccountCreateUpdate(d0, remote, gen, TRUE, shape, fault)
           IN  Finish("create", d0, res)

\* the host updates the resource: Update, with d.IsNewResource() false; name,
\* resource group and sku are ForceNew, so only the tags can differ
Update ==
    /\ d.id # <<>>
    /\ \E t \in TagMaps, fault \in UpdateFaults,
          shape \in NewShapes(<<d.resource_group_name, d.name>>) :
            LET d0  == [d EXCEPT !.tags = t]
                res == resourceMapsAccountCreateUpdate(d0, remote, gen, FALSE, shape, fault)
            IN  Finish("update", d0, res)

\* the host refreshes the resource: Read
Read ==
    \E fault \in ReadFaults :
        /\ d.id # <<>>
        /\ Finish("read", d, resourceMapsAccountRead(d, remote, gen, <<>>, fault))

\* the host destroys the resource: Delete; the handler leaves d alone
Delete ==
    \E fault \in DeleteFaults :
        /\ d.id # <<>>
        /\ Finish("delete", d, resourceMapsAccountDelete(d, remote, gen, fault))

\* the host drops the resource from its state (after a destroy, or when the
\* resource is removed from the state): the next Create starts afresh
DropState ==
    /\ d.id # <<>>
    /\ d' = NewData("", "", "", {})
    /\ last' = Other("drop")
    /\ UNCHANGED <<remote, gen, assigned>>

\* another client of the provider creates an account out of band
EnvCreate ==
    \E key \in Keys, sku \in SkuNames, t \in TagMaps, shape \in Shapes :
        /\ remote[key] = <<>>
        /\ gen < MaxGen
        /\ LET cu == ClientCreateOrUpdate(remote, gen, key, Parameters(sku, t),
                                          shape, FALSE)
           IN  remote' = cu.remote /\ gen' = cu.gen
        /\ last' = Other("env")
        /\ UNCHANGED <<d, assigned>>

\* another client of the provider removes an account out of band
EnvDelete ==
    \E key \in Keys :
        /\ remote[key] # <<>>
        /\ remote' = ClientDelete(remote, key, FALSE).remote
        /\ last' = Other("env")
        /\ UNCHANGED <<d, gen, assigned>>

Next ==
    \/ Create
    \/ Update
    \/ Read
    \/ Delete
    \/ DropState
    \/ EnvCreate
    \/ EnvDelete

Spec == Init /\ [][Next]_vars

----------------------------------------------------------------------------
(* The claims.  Each is stated over the record of the latest invocation. *)

HasCall(name) == \E i \in 1..Len(last.calls) : last.calls[i][1] = name

\* a remote call of the invocation failed although the provider holds the
\* account: an error other than not-found, or the follow-up Get answering 404
Faulted ==
    \E i \in 1..Len(last.calls) :
        \/ last.calls[i][2] = "error"
        \/ /\ i > 1
           /\ last.calls[i] = <<"Get", "notfound">>
           /\ last.calls[i - 1][1] = "CreateOrUpdate"

\* the shapes in which the provider reports the account with its identifier
WithID == {"full", "noSku", "noProperties"}

ConfigMatches ==
    /\ d.name = last.input.name
    /\ d.resource_group_name = last.input.resource_group_name
    /\ d.sku_name = last.input.sku_name

\* the computed fields the invocation set
Populated == last.written \cap ComputedFields

\* the outcome of the Get of the read handler: the last Get of the
\* invocation, "none" when the read handler did not get to it
ReadGetOutcome ==
    IF ~last.readRan \/ last.err = "ParseID" THEN "none"
    ELSE LET gets == {i \in 1..Len(last.calls) : last.calls[i][1] = "Get"}
             i == CHOOSE j \in gets : \A k \in gets : k <= j
         IN  last.calls[i][2]

\* the Get of the read handler returned the account without Properties
ReadWithoutProperties ==
    LET id == AccountID(d.id) IN
    /\ id.ok
    /\ remote[<<id.ResourceGroup, id.Name>>] # <<>>
    /\ remote[<<id.ResourceGroup, id.Name>>][1].shape = "noProperties"

\* C1: a create (is-new-resource true) of an account that exists remotely
\* issues no CreateOrUpdate, leaves the remote state and the empty identifier
\* as they are and fails; when the probe is answered, it fails with the
\* "already exists" error that names the existing account's identifier.  (An
\* account exists for the handler when the provider reports it with its
\* identifier.)
C1_ExistingAccountBlocksCreate ==
    (last.op = "create" /\ last.entryShape \in WithID) =>
        /\ ~HasCall("CreateOrUpdate")
        /\ last.remoteKept
        /\ d.id = <<>>
        /\ last.err \in {"AlreadyExists", "CheckPresence"}
        /\ last.calls[1] = <<"Get", "ok">> =>
              /\ last.err = "AlreadyExists"
              /\ last.ref = FormatID(last.input.resource_group_name, last.input.name)

\* the second of two creates of the same account fails with "already exists",
\* naming the identifier the first one obtained
C1_Witness ==
    /\ last.op = "create"
    /\ last.err = "AlreadyExists"
    /\ last.ref \in assigned
    /\ last.calls = << <<"Get", "ok">> >>

\* C2: after a successful create, and after the read that follows it, the
\* name, resource_group_name and sku_name of the local record are the ones
\* given to the create.
C2_CreateThenRead ==
    /\ (last.op = "create" /\ last.err = "nil") => ConfigMatches
    /\ (last.op = "read" /\ last.after = "create") => ConfigMatches

C2_Witness ==
    /\ last.op = "read"
    /\ last.after = "create"
    /\ last.err = "nil"
    /\ d.id # <<>>
    /\ d.sku_name = "S1"
    /\ d.name = "mymaps"
    /\ d.primary_access_key # <<>>

\* C3: a read whose Get reports not found (the account was removed upstream)
\* clears the identifier, returns success and issues no ListKeys.
C3_ReadOfRemovedAccount ==
    (last.op = "read" /\ last.calls # <<>> /\ last.calls[1] = <<"Get", "notfound">>) =>
        /\ d.id = <<>>
        /\ last.err = "nil"
        /\ ~HasCall("ListKeys")
        /\ Len(last.calls) = 1

C3_Witness ==
    /\ last.op = "read"
    /\ last.entryShape = "absent"
    /\ last.calls = << <<"Get", "notfound">> >>
    /\ ~last.idKept
    /\ d.primary_access_key # <<>>

\* C4: a delete whose Delete call is answered succeeds, also when it follows
\* a successful delete of the same identifier and the account is absent.
C4_DeleteTwice ==
    /\ (last.op = "delete" /\ ~Faulted) => last.err = "nil"
    /\ (last.op = "delete" /\ last.after = "delete") =>
          /\ last.entryShape = "absent"
          /\ last.idKept
          /\ ~Faulted => last.err = "nil"

C4_Witness ==
    /\ last.op = "delete"
    /\ last.after = "delete"
    /\ last.entryShape = "absent"
    /\ last.err = "nil"

\* C5 as stated, for a read whose Get is answered by a provider that
\* describes the account in full: all three computed fields were populated by
\* the invocation if the account exists, and none if it does not.
C5_AllOrNone ==
    (last.readRan /\ ReadGetOutcome \in {"ok", "notfound"} /\ ~ReadWithoutProperties) =>
        IF ReadGetOutcome = "ok"
        THEN Populated = ComputedFields
        ELSE Populated = {}

\* C5, amended: after a read that returns success, the two access keys were
\* populated if its Get returned the account, and x_ms_client_id exactly when
\* that response carried Properties; none of the three was when its Get
\* reported not found.  A read that fails populated none of the three, except
\* that a read whose ListKeys call fails populated x_ms_client_id alone when
\* the Get response carried Properties.
C5_PopulatedFields ==
    last.readRan =>
        /\ (last.err = "nil" /\ ReadGetOutcome = "ok") =>
              Populated = IF ReadWithoutProperties
                          THEN {"primary_access_key", "secondary_access_key"}
                          ELSE ComputedFields
        /\ ReadGetOutcome # "ok" => Populated = {}
        /\ last.err = "ReadKeys" =>
              Populated = IF ReadWithoutProperties THEN {} ELSE {"x_ms_client_id"}
        /\ last.err \in {"nil", "ReadKeys", "ReadRequest", "ParseID"}

\* a read fails at ListKeys and has populated x_ms_client_id alone
C5_Witness ==
    /\ last.readRan
    /\ last.err = "ReadKeys"
    /\ Populated = {"x_ms_client_id"}

\* C6: the local identifier is non-empty only if it was returned by the Get
\* that followed a successful CreateOrUpdate; a successful write followed by
\* a Get response without ID makes the handler fail and leaves the identifier
\* as it was (empty, for a create).
C6_IdentifierOnlyAfterWrite ==
    /\ d.id # <<>> => d.id \in assigned
    /\ last.err = "NoID" =>
          /\ last.idKept
          /\ last.op = "create" => d.id = <<>>
          /\ Len(last.calls) >= 2
          /\ last.calls[Len(last.calls)] = <<"Get", "ok">>
          /\ last.calls[Len(last.calls) - 1] = <<"CreateOrUpdate", "ok">>

C6_Witness ==
    /\ last.op = "create"
    /\ last.err = "NoID"
    /\ d.id = <<>>
    /\ ~last.remoteKept

\* C7: in a create, a probe answered by anything but not-found or a clean
\* response without an account makes the handler fail at once, before any
\* CreateOrUpdate.
C7_ProbeFailsFast ==
    (/\ last.op = "create"
     /\ \/ last.calls[1] = <<"Get", "error">>
        \/ last.calls[1] = <<"Get", "ok">> /\ last.entryShape \in WithID) =>
        /\ last.err \in {"CheckPresence", "AlreadyExists"}
        /\ Len(last.calls) = 1
        /\ last.remoteKept

C7_Witness ==
    /\ last.op = "create"
    /\ last.calls = << <<"Get", "error">> >>
    /\ last.err = "CheckPresence"

\* C8: an update given the configuration of the successful create or update
\* right before it succeeds (its remote calls being answered) and leaves the
\* remote account and the local record as they were.
C8_RepeatedUpdateIdempotent ==
    (/\ last.op = "update"
     /\ last.after \in {"create", "update"}
     /\ last.same
     /\ ~Faulted) =>
        /\ last.err = "nil"
        /\ last.remoteKept
        /\ last.recordKept

C8_Witness ==
    /\ last.op = "update"
    /\ last.after = "update"
    /\ last.same
    /\ last.err = "nil"
    /\ last.input.tags # {}
    /\ last.remoteKept /\ last.recordKept

\* C9: a remote call that returns an error ends the invocation with an error
\* and is the last call of the invocation; the only exception is a not-found
\* answer to the Get of the read handler or of the creation probe.  The read
\* handler fails when its Get (other than not found) or its ListKeys fails.
C9_NoErrorSwallowed ==
    /\ \A i \in 1..Len(last.calls) :
          /\ last.calls[i][2] = "error" =>
                last.err # "nil" /\ i = Len(last.calls)
          /\ last.calls[i][2] = "notfound" =>
                \/ last.op \in {"read", "create"} /\ i = 1
                \/ last.err # "nil" /\ i = Len(last.calls)
    /\ (last.readRan /\ ReadGetOutcome = "error") => last.err = "ReadRequest"
    /\ (last.calls # <<>> /\ last.calls[Len(last.calls)] = <<"ListKeys", "error">>) =>
          last.err = "ReadKeys"

C9_Witness ==
    /\ last.op = "read"
    /\ last.calls = << <<"Get", "ok">>, <<"ListKeys", "error">> >>
    /\ last.err = "ReadKeys"

\* C10: a create or update that fails at the probe, the CreateOrUpdate, the
\* follow-up Get or the missing-ID check leaves the identifier as it was, also
\* when the CreateOrUpdate had succeeded: the account then exists while the
\* identifier is empty, and the create of the same account that follows
\* fails with "already exists" (its probe being answered with the identifier).
C10_FailedCreateKeepsIdentifier ==
    /\ (/\ last.op \in {"create", "update"}
        /\ last.err \in {"CheckPresence", "AlreadyExists", "CreateUpdate",
                         "Retrieve", "NoID"}) => last.idKept
    /\ (last.op = "create" /\ last.after = "stranded" /\ last.sameKey) =>
          /\ last.entryShape # "absent"
          /\ (last.entryShape \in WithID /\ last.calls[1] = <<"Get", "ok">>) =>
                last.err = "AlreadyExists" /\ d.id = <<>>

C10_Witness ==
    /\ last.op = "create"
    /\ last.after = "stranded"
    /\ last.sameKey
    /\ last.err = "AlreadyExists"
    /\ d.id = <<>>

====
